---- MODULE Spec2Model ----
(***************************************************************************)
(* Model of src/main.py: the /process-image request handler and the three  *)
(* functions it chains (ocr_image, clean_text_with_openai,                 *)
(* query_hardcover_graphql).  One request is followed from its arrival to  *)
(* its response.  The OCR backend, the assistant thread and the catalog    *)
(* are inputs: every step that calls one of them draws what it returns.    *)
(*                                                                         *)
(* Python values are records tagged by "t".  A str is a sequence of        *)
(* one-character strings, so that `in` on a str is a substring test; a     *)
(* dict is a sequence of key/value pairs in insertion order.               *)
(***************************************************************************)
EXTENDS Integers, Sequences, FiniteSets

VARIABLES
    pc,             \* position of the handler in process_image
    request,        \* the upload as received: [hasFile, filename]
    tempExists,     \* the NamedTemporaryFile exists on disk
    extracted_text, \* process_image's extracted_text
    messages,       \* clean_text_with_openai's listing of the thread
    cleaned_books,  \* process_image's cleaned_books
    idx,            \* position of the for loop over cleaned_books
    all_books_info, \* process_image's all_books_info
    response,       \* the HTTP response, NoResponse until one is returned
    tempCreated,    \* history: number of temporary files created
    ocrCalls,       \* history: number of ocr_model.ocr invocations
    ocrRaised,      \* history: the OCR backend raised
    runCalls,       \* history: number of assistant runs started
    normRet,        \* history: which return of clean_text_with_openai was taken
    calls           \* history: the query_hardcover_graphql calls, in order

vars == <<pc, request, tempExists, extracted_text, messages, cleaned_books, idx,
          all_books_info, response, tempCreated, ocrCalls, ocrRaised, runCalls,
          normRet, calls>>

----------------------------------------------------------------------------
(* Bounds of the inputs *)

MaxOcr == 1      \* lines of an OCR result, and detections per line
MaxSkip == 1     \* user messages before, and non-text parts before, the reply
MaxBooks == 3    \* entries of a "books" array

----------------------------------------------------------------------------
(* Python values *)

JNull == [t |-> "null"]
JNum(n) == [t |-> "num", n |-> n]
JStr(s) == [t |-> "str", s |-> s]
JList(l) == [t |-> "list", l |-> l]
JObj(o) == [t |-> "obj", o |-> o]
\* a str constant of the source; its characters are never inspected
Lit(m) == [t |-> "lit", m |-> m]
\* an exception propagating out of a call
Raised(e) == [t |-> "raise", e |-> e]

KV(k, val) == [k |-> k, val |-> val]

S_error == <<"e", "r", "r", "o", "r">>
S_errors == <<"e", "r", "r", "o", "r", "s">>
S_books == <<"b", "o", "o", "k", "s">>
S_title == <<"t", "i", "t", "l", "e">>
S_author == <<"a", "u", "t", "h", "o", "r">>
S_data == <<"d", "a", "t", "a">>

IsSubstr(k, s) ==
    \E i \in 0..(Len(s) - Len(k)) : SubSeq(s, i + 1, i + Len(k)) = k

\* bool(x)
Truthy(x) ==
    CASE x.t = "null" -> FALSE
      [] x.t = "num" -> x.n # 0
      [] x.t = "str" -> x.s # <<>>
      [] x.t = "list" -> x.l # <<>>
      [] x.t = "obj" -> x.o # <<>>
      [] OTHER -> TRUE

\* `k in x` is defined (no TypeError) for a str key k
Supports(x) == x.t \in {"obj", "list", "str"}

\* `k in x` for a str key k, where Supports(x)
In(k, x) ==
    CASE x.t = "obj" -> \E i \in DOMAIN x.o : x.o[i].k = k
      [] x.t = "list" -> \E i \in DOMAIN x.l : x.l[i] = JStr(k)
      [] x.t = "str" -> IsSubstr(k, x.s)
      [] OTHER -> FALSE

\* x[k] for a str key k: the value, or the exception raised
Index(x, k) ==
    IF x.t = "obj"
    THEN IF In(k, x)
         THEN x.o[CHOOSE i \in DOMAIN x.o : x.o[i].k = k].val
         ELSE Raised("KeyError")
    ELSE Raised("TypeError")

\* x.get(k, default): the value, or the exception raised
Get(x, k, default) ==
    IF x.t = "obj"
    THEN IF In(k, x) THEN Index(x, k) ELSE default
    ELSE Raised("AttributeError")

\* the items `for item in x` yields, where Supports(x)
Iter(x) ==
    CASE x.t = "list" -> x.l
      [] x.t = "obj" -> [i \in DOMAIN x.o |-> JStr(x.o[i].k)]
      [] x.t = "str" -> [i \in DOMAIN x.s |-> JStr(<<x.s[i]>>)]
      [] OTHER -> <<>>

SeqsUpTo(S, n) == UNION {[1..m -> S] : m \in 0..n}

----------------------------------------------------------------------------
(* HTTP responses *)

NoResponse ==
    [status |-> 0, json |-> FALSE, keys |-> {}, error |-> JNull,
     extracted_text |-> <<>>, books_info |-> <<>>]

\* jsonify({"error": e}), status
JsonError(status, e) ==
    [status |-> status, json |-> TRUE, keys |-> {"error"}, error |-> e,
     extracted_text |-> <<>>, books_info |-> <<>>]

\* jsonify({"extracted_text": text, "books_info": infos})
JsonOk(text, infos) ==
    [status |-> 200, json |-> TRUE, keys |-> {"extracted_text", "books_info"},
     error |-> JNull, extracted_text |-> text, books_info |-> infos]

\* an exception left process_image: the framework answers 500 with its own
\* HTML page, which is no JSON document
Unhandled ==
    [status |-> 500, json |-> FALSE, keys |-> {}, error |-> JNull,
     extracted_text |-> <<>>, books_info |-> <<>>]

----------------------------------------------------------------------------
(* ocr_image *)

RECURSIVE JoinWords(_)
\* for word_info in line: text += word_info[1][0] + ' '
JoinWords(line) ==
    IF line = <<>> THEN <<>>
    ELSE Head(line) \o <<" ">> \o JoinWords(Tail(line))

RECURSIVE JoinLines(_)
\* for line in result: ...
JoinLines(result) ==
    IF result = <<>> THEN <<>>
    ELSE JoinWords(Head(result)) \o JoinLines(Tail(result))

RECURSIVE LStrip(_)
LStrip(s) ==
    IF s = <<>> THEN s
    ELSE IF Head(s) = " " THEN LStrip(Tail(s)) ELSE s

RECURSIVE RStrip(_)
RStrip(s) ==
    IF s = <<>> THEN s
    ELSE IF s[Len(s)] = " " THEN RStrip(SubSeq(s, 1, Len(s) - 1)) ELSE s

\* str.strip()
Strip(s) == RStrip(LStrip(s))

\* What ocr_model.ocr does: it returns lines of detections, of which only
\* the recognised text is kept here, or an exception whose str() is msg is
\* raised inside the try block (by the backend, or by the loops over a
\* result that is no list of lines).
OcrWords == {<<"D">>, <<>>}
OcrMessages == {<<>>, <<"E">>}
OcrOutcomes ==
    {[raises |-> TRUE, msg |-> m, result |-> <<>>] : m \in OcrMessages}
    \cup {[raises |-> FALSE, msg |-> <<>>, result |-> r] :
            r \in SeqsUpTo(SeqsUpTo(OcrWords, MaxOcr), MaxOcr)}

\* ocr_image(image_path), given what the backend does
ocr_image(o) ==
    IF o.raises THEN o.msg ELSE Strip(JoinLines(o.result))

----------------------------------------------------------------------------
(* clean_text_with_openai *)

\* A text part carries what json.loads makes of its value: ok = FALSE is a
\* JSONDecodeError, otherwise value is the parsed document.
TextPart(ok, value) == [type |-> "text", ok |-> ok, value |-> value]
ImagePart == [type |-> "image_file", ok |-> FALSE, value |-> JNull]
UserMsg == [role |-> "user", content |-> <<>>]
Asst(content) == [role |-> "assistant", content |-> content]

\* entries an assistant may put in the books array
CandNone == JObj(<<>>)
CandEmpty == JObj(<<KV(S_title, JStr(<<>>)), KV(S_author, JStr(<<"X">>))>>)
CandD == JObj(<<KV(S_title, JStr(<<"D">>)), KV(S_author, JStr(<<"H">>))>>)
CandE == JObj(<<KV(S_title, JStr(<<"E">>))>>)
Elements == {CandNone, CandEmpty, CandD, CandE, JStr(S_error), JStr(<<"x">>)}

\* values an assistant may put under the books key
BooksValues ==
    {JList(l) : l \in SeqsUpTo(Elements, MaxBooks)}
    \cup {JNull, JStr(<<>>), JStr(S_error),
          JObj(<<KV(S_error, JStr(<<"o">>))>>),
          JObj(<<KV(S_title, JStr(<<"D">>))>>)}

\* documents an assistant may answer with
Documents ==
    {JNull, JNum(5), JObj(<<>>), JObj(<<KV(<<"x">>, JNum(1))>>),
     JList(<<JStr(S_books)>>), JStr(S_books)}
    \cup {JObj(<<KV(S_books, b)>>) : b \in BooksValues}

Texts ==
    {TextPart(FALSE, JNull)} \cup {TextPart(TRUE, d) : d \in Documents}

OtherPart == TextPart(TRUE, JObj(<<KV(S_books, JList(<<>>))>>))

Repeat(x, n) == [i \in 1..n |-> x]

\* contents of an assistant message: non-text parts, then possibly a text
\* part, then possibly another text part
Contents ==
    {Repeat(ImagePart, j) \o first \o rest :
        j \in 0..MaxSkip,
        first \in {<<>>} \cup {<<p>> : p \in Texts},
        rest \in {<<>>, <<OtherPart>>}}

\* listings of the thread, newest first: user messages, then possibly an
\* assistant message, then possibly an older assistant message
Listings ==
    {Repeat(UserMsg, k) \o reply \o older :
        k \in 0..MaxSkip,
        reply \in {<<>>} \cup {<<Asst(c)>> : c \in Contents},
        older \in {<<>>, <<Asst(<<OtherPart>>)>>}}

ErrDict(m) == JObj(<<KV(S_error, Lit(m))>>)

\* for message in messages: if message.role == 'assistant': ... break
\* (0 when the loop ends without a match)
FirstAssistant(msgs) ==
    IF \E i \in DOMAIN msgs : msgs[i].role = "assistant"
    THEN CHOOSE i \in DOMAIN msgs :
            /\ msgs[i].role = "assistant"
            /\ \A j \in 1..(i - 1) : msgs[j].role # "assistant"
    ELSE 0

\* the first content part of type text (0 when there is none)
FirstText(content) ==
    IF \E i \in DOMAIN content : content[i].type = "text"
    THEN CHOOSE i \in DOMAIN content :
            /\ content[i].type = "text"
            /\ \A j \in 1..(i - 1) : content[j].type # "text"
    ELSE 0

\* if response_json and "books" in response_json: return response_json["books"]
\* else: return {"error": "Invalid response schema"}
ValidateSchema(response_json) ==
    IF ~Truthy(response_json)
    THEN [ret |-> "InvalidSchema", value |-> ErrDict("Invalid response schema")]
    ELSE IF ~Supports(response_json)
    THEN [ret |-> "raise", value |-> Raised("TypeError")]
    ELSE IF In(S_books, response_json)
    THEN LET b == Index(response_json, S_books)
         IN  IF b.t = "raise" THEN [ret |-> "raise", value |-> b]
             ELSE [ret |-> "books", value |-> b]
    ELSE [ret |-> "InvalidSchema", value |-> ErrDict("Invalid response schema")]

\* clean_text_with_openai from the listing on: which return is taken (ret)
\* and the value returned, or the exception raised
clean_text_with_openai(msgs) ==
    LET a == FirstAssistant(msgs) IN
    IF a = 0
    THEN [ret |-> "AssistantResponseMissing",
          value |-> ErrDict("Assistant response not found")]
    ELSE LET content == msgs[a].content
             p == FirstText(content)
         IN  IF p = 0 THEN ValidateSchema(JNull)
             ELSE IF ~content[p].ok
             THEN [ret |-> "InvalidJson",
                   value |-> ErrDict("Failed to decode JSON from assistant response")]
             ELSE ValidateSchema(content[p].value)

----------------------------------------------------------------------------
(* query_hardcover_graphql *)

Match == JObj(<<KV(S_title, JStr(<<"D">>))>>)
QueryErrors == JList(<<JStr(<<"q">>)>>)

\* bodies the catalog may answer with (response.json())
Bodies ==
    {JObj(<<KV(S_errors, QueryErrors)>>),
     JObj(<<KV(S_data, JObj(<<KV(S_books, JList(<<Match>>))>>))>>),
     JObj(<<KV(S_data, JObj(<<KV(S_books, JList(<<>>))>>))>>),
     JObj(<<KV(S_data, JObj(<<>>))>>),
     JObj(<<>>),
     JObj(<<KV(S_data, JNull)>>),
     JObj(<<KV(S_data, JObj(<<KV(S_error, JStr(<<"e">>))>>))>>),
     JList(<<>>)}

\* What requests.post / raise_for_status / response.json do: raise a
\* RequestException whose str() is msg, or yield the parsed body.
CatalogOutcomes ==
    {[raises |-> TRUE, msg |-> <<"T">>, body |-> JNull]}
    \cup {[raises |-> FALSE, msg |-> <<>>, body |-> b] : b \in Bodies}

\* query_hardcover_graphql(similar_title), given what the catalog does
query_hardcover_graphql(o) ==
    IF o.raises THEN JObj(<<KV(S_error, JStr(o.msg))>>)
    ELSE IF ~Supports(o.body) THEN Raised("TypeError")
    ELSE IF In(S_errors, o.body)
    THEN LET e == Index(o.body, S_errors)
         IN  IF e.t = "raise" THEN e ELSE JObj(<<KV(S_error, e)>>)
    ELSE Get(o.body, S_data, JObj(<<>>))

----------------------------------------------------------------------------
(* process_image *)

Requests ==
    {[hasFile |-> FALSE, filename |-> ""]}
    \cup {[hasFile |-> TRUE, filename |-> f] : f \in {"", "spines.png"}}

\* UploadError without the check of the filename
UploadErrorNoFilename(req) ==
    IF ~req.hasFile THEN "No file uploaded" ELSE ""

\* the checks of the upload: the error message, "" when the upload passes
UploadError(req) ==
    IF ~req.hasFile THEN "No file uploaded"
    ELSE IF req.filename = "" THEN "No selected file"
    ELSE ""

\* TempFileAfterWith where the return inside the block skips the cleanup
TempFileLeftOnReturn(text) == text = <<>>

\* whether the temporary file still exists once the with block is left,
\* by the return inside it (text is empty) or by falling out of it
TempFileAfterWith(text) == FALSE

\* SkipsCandidate that skips nothing
SkipsCandidateNever(title) == FALSE

\* if not title: continue
SkipsCandidate(title) == ~Truthy(title)

\* GraphqlFailed that lets every catalog answer through
GraphqlFailedNever(g) == FALSE

\* if "error" in graphql_response, where Supports(g)
GraphqlFailed(g) == In(S_error, g)

\* ResponseRecord with title and author exchanged
ResponseRecordSwapped(title, author, hardcover_books) ==
    [extracted_title |-> author, extracted_author |-> title,
     hardcover_books |-> hardcover_books]

\* the dict appended to all_books_info
ResponseRecord(title, author, hardcover_books) ==
    [extracted_title |-> title, extracted_author |-> author,
     hardcover_books |-> hardcover_books]

Init ==
    /\ pc = "ReceiveUpload"
    /\ request = [hasFile |-> FALSE, filename |-> ""]
    /\ tempExists = FALSE
    /\ extracted_text = <<>>
    /\ messages = <<>>
    /\ cleaned_books = JNull
    /\ idx = 0
    /\ all_books_info = <<>>
    /\ response = NoResponse
    /\ tempCreated = 0
    /\ ocrCalls = 0
    /\ ocrRaised = FALSE
    /\ runCalls = 0
    /\ normRet = "none"
    /\ calls = <<>>

\* lines 177-187: the checks of the upload, then the temporary file is
\* created and the upload saved into it
ReceiveUpload ==
    /\ pc = "ReceiveUpload"
    /\ \E req \in Requests :
        /\ request' = req
        /\ IF UploadError(req) # ""
           THEN /\ response' = JsonError(400, Lit(UploadError(req)))
                /\ pc' = "Done"
                /\ UNCHANGED <<tempExists, tempCreated>>
           ELSE /\ tempExists' = TRUE
                /\ tempCreated' = tempCreated + 1
                /\ pc' = "Extract"
                /\ UNCHANGED response
    /\ UNCHANGED <<extracted_text, messages, cleaned_books, idx, all_books_info,
                   ocrCalls, ocrRaised, runCalls, normRet, calls>>

\* line 190: extracted_text = ocr_image(temp.name), inside the with block
OcrImage ==
    /\ pc = "Extract"
    /\ \E o \in OcrOutcomes :
        /\ extracted_text' = ocr_image(o)
        /\ ocrRaised' = o.raises
    /\ ocrCalls' = ocrCalls + 1
    /\ pc' = "ExtractExit"
    /\ UNCHANGED <<request, tempExists, messages, cleaned_books, idx,
                   all_books_info, response, tempCreated, runCalls, normRet, calls>>

\* lines 191-193: the check of the text and the end of the with block
ExitExtract ==
    /\ pc = "ExtractExit"
    /\ tempExists' = TempFileAfterWith(extracted_text)
    /\ IF extracted_text = <<>>
       THEN /\ response' = JsonError(500, Lit("Could not extract text from image"))
            /\ pc' = "Done"
       ELSE /\ pc' = "Normalize"
            /\ UNCHANGED response
    /\ UNCHANGED <<request, extracted_text, messages, cleaned_books, idx,
                   all_books_info, tempCreated, ocrCalls, ocrRaised, runCalls,
                   normRet, calls>>

\* lines 84-102: the thread, the user message, the streamed run and the
\* listing of the thread (the API calls are taken to return)
RunAssistant ==
    /\ pc = "Normalize"
    /\ runCalls' = runCalls + 1
    /\ \E l \in Listings : messages' = l
    /\ pc' = "Classify"
    /\ UNCHANGED <<request, tempExists, extracted_text, cleaned_books, idx,
                   all_books_info, response, tempCreated, ocrCalls, ocrRaised,
                   normRet, calls>>

\* lines 104-128, then lines 195-200 of process_image
ParseReply ==
    /\ pc = "Classify"
    /\ LET r == clean_text_with_openai(messages) IN
        /\ normRet' = r.ret
        /\ IF r.ret = "raise"
           THEN /\ response' = Unhandled
                /\ pc' = "Done"
                /\ UNCHANGED <<cleaned_books, idx>>
           ELSE /\ cleaned_books' = r.value
                /\ IF ~Supports(r.value)
                   THEN /\ response' = Unhandled
                        /\ pc' = "Done"
                        /\ UNCHANGED idx
                   ELSE IF In(S_error, r.value)
                   THEN /\ response' =
                            IF Index(r.value, S_error).t = "raise" THEN Unhandled
                            ELSE JsonError(500, Index(r.value, S_error))
                        /\ pc' = "Done"
                        /\ UNCHANGED idx
                   ELSE /\ pc' = "EnrichEach"
                        /\ idx' = 1
                        /\ UNCHANGED response
    /\ messages' = <<>>
    /\ UNCHANGED <<request, tempExists, extracted_text, all_books_info,
                   tempCreated, ocrCalls, ocrRaised, runCalls, calls>>

Book == Iter(cleaned_books)[idx]
Title == Get(Book, S_title, JStr(<<>>))
Author == Get(Book, S_author, JStr(<<>>))

\* lines 203-204 on an entry that has no get method
CandidateRaises ==
    /\ pc = "EnrichEach"
    /\ idx <= Len(Iter(cleaned_books))
    /\ Title.t = "raise"
    /\ response' = Unhandled
    /\ pc' = "Done"
    /\ UNCHANGED <<request, tempExists, extracted_text, messages, cleaned_books,
                   idx, all_books_info, tempCreated, ocrCalls, ocrRaised,
                   runCalls, normRet, calls>>

\* lines 203-207: continue
SkipCandidate ==
    /\ pc = "EnrichEach"
    /\ idx <= Len(Iter(cleaned_books))
    /\ Title.t # "raise"
    /\ SkipsCandidate(Title)
    /\ idx' = idx + 1
    /\ UNCHANGED <<pc, request, tempExists, extracted_text, messages,
                   cleaned_books, all_books_info, response, tempCreated,
                   ocrCalls, ocrRaised, runCalls, normRet, calls>>

\* lines 203-223: the catalog query for one candidate and what follows it
EnrichCandidate ==
    /\ pc = "EnrichEach"
    /\ idx <= Len(Iter(cleaned_books))
    /\ Title.t # "raise"
    /\ ~SkipsCandidate(Title)
    /\ \E o \in CatalogOutcomes :
        LET g == query_hardcover_graphql(o) IN
        /\ calls' = Append(calls, [idx |-> idx, title |-> Title, outcome |-> o,
                                   result |-> g])
        /\ IF ~Supports(g)
           THEN /\ response' = Unhandled
                /\ pc' = "Done"
                /\ UNCHANGED <<idx, all_books_info>>
           ELSE IF GraphqlFailed(g)
           THEN /\ response' =
                    IF Index(g, S_error).t = "raise" THEN Unhandled
                    ELSE JsonError(500, Index(g, S_error))
                /\ pc' = "Done"
                /\ UNCHANGED <<idx, all_books_info>>
           ELSE IF Get(g, S_books, JList(<<>>)).t = "raise"
           THEN /\ response' = Unhandled
                /\ pc' = "Done"
                /\ UNCHANGED <<idx, all_books_info>>
           ELSE /\ all_books_info' =
                    Append(all_books_info,
                           ResponseRecord(Title, Author, Get(g, S_books, JList(<<>>))))
                /\ idx' = idx + 1
                /\ UNCHANGED <<pc, response>>
    /\ UNCHANGED <<request, tempExists, extracted_text, messages, cleaned_books,
                   tempCreated, ocrCalls, ocrRaised, runCalls, normRet>>

\* lines 225-228
Respond ==
    /\ pc = "EnrichEach"
    /\ idx > Len(Iter(cleaned_books))
    /\ response' = JsonOk(extracted_text, all_books_info)
    /\ pc' = "Done"
    /\ UNCHANGED <<request, tempExists, extracted_text, messages, cleaned_books,
                   idx, all_books_info, tempCreated, ocrCalls, ocrRaised,
                   runCalls, normRet, calls>>

Next ==
    \/ ReceiveUpload
    \/ OcrImage
    \/ ExitExtract
    \/ RunAssistant
    \/ ParseReply
    \/ CandidateRaises
    \/ SkipCandidate
    \/ EnrichCandidate
    \/ Respond

Spec == Init /\ [][Next]_vars

----------------------------------------------------------------------------
(* What the claims speak of, read off the inputs and the response *)

\* the request has left the Extract stage
PastExtract == pc \in {"Normalize", "Classify", "EnrichEach", "Done"}

\* the entries of the value the Normalizer returned, once it returned one
Candidates == IF normRet = "books" THEN Iter(cleaned_books) ELSE <<>>

HasKey(b, k) == b.t = "obj" /\ \E i \in DOMAIN b.o : b.o[i].k = k
FieldOf(b, k) == b.o[CHOOSE i \in DOMAIN b.o : b.o[i].k = k].val

\* a candidate with a non-empty title
Titled(b) ==
    /\ HasKey(b, S_title)
    /\ FieldOf(b, S_title).t = "str"
    /\ FieldOf(b, S_title).s # <<>>

\* a candidate whose title is empty or missing
Untitled(b) == b.t = "obj" /\ ~Titled(b)

TitledIdx(cands) == {i \in DOMAIN cands : Titled(cands[i])}
NthTitled(cands, n) ==
    CHOOSE i \in TitledIdx(cands) :
        Cardinality({j \in TitledIdx(cands) : j <= i}) = n

\* the catalog failed: a transport error, or a body with an errors array
EnricherFailed(o) == o.raises \/ HasKey(o.body, S_errors)
FailureDetail(o) == IF o.raises THEN JStr(o.msg) ELSE FieldOf(o.body, S_errors)

ErrorRets == {"AssistantResponseMissing", "InvalidJson", "InvalidSchema"}

----------------------------------------------------------------------------
(* Claims *)

\* C1: every request ends either with HTTP 200 and a body holding books_info
\* (no longer than the number of candidates with a non-empty title) and no
\* error field, or with a 4xx/5xx whose JSON body holds an error field and no
\* books_info.
C1_TwoOutcomes ==
    pc = "Done" =>
        \/ /\ response.status = 200
           /\ response.json
           /\ "books_info" \in response.keys
           /\ "error" \notin response.keys
           /\ Len(response.books_info) <= Cardinality(TitledIdx(Candidates))
        \/ /\ response.status \in 400..599
           /\ response.json
           /\ "error" \in response.keys
           /\ "books_info" \notin response.keys

\* C2: when the OCR backend raised or the extracted text is empty, the
\* request ends with 500 "Could not extract text from image" and neither the
\* Normalizer nor the Enricher is called.
C2_ExtractFailureAborts ==
    (ocrCalls > 0 /\ (ocrRaised \/ extracted_text = <<>>)) =>
        /\ runCalls = 0
        /\ calls = <<>>
        /\ PastExtract =>
            /\ pc = "Done"
            /\ response = JsonError(500, Lit("Could not extract text from image"))

\* C3: an Enricher call that failed (transport error or errors array) is the
\* last one of the request, and the request has ended with a 500 whose error
\* field is the failure's detail and whose body holds no record.
C3_FirstEnricherFailureAborts ==
    \A n \in DOMAIN calls :
        EnricherFailed(calls[n].outcome) =>
            /\ n = Len(calls)
            /\ pc = "Done"
            /\ response = JsonError(500, FailureDetail(calls[n].outcome))
            /\ "books_info" \notin response.keys
            /\ response.books_info = <<>>

\* C3 witness: the second catalog call failed after a record had been built
\* and with a later candidate still to come.
C3_Witness ==
    /\ Len(calls) = 2
    /\ EnricherFailed(calls[2].outcome)
    /\ all_books_info # <<>>
    /\ idx < Len(Candidates)
    /\ pc = "Done"

\* C4: no Enricher call is made for a candidate with an empty or missing
\* title, the request never fails at such a candidate, and when every
\* candidate is one the response is 200 with books_info empty.
C4_EmptyTitleSkipped ==
    /\ \A n \in DOMAIN calls : ~Untitled(Candidates[calls[n].idx])
    /\ (pc = "Done" /\ idx \in DOMAIN Candidates /\ response.status # 200)
            => ~Untitled(Candidates[idx])
    /\ (/\ pc = "Done"
        /\ normRet = "books"
        /\ cleaned_books.t = "list"
        /\ \A i \in DOMAIN Candidates : Untitled(Candidates[i]))
            => response = JsonOk(extracted_text, <<>>)

\* C4 witness: a request has ended whose candidates, more than one, all have
\* an empty or missing title.
C4_Witness ==
    /\ pc = "Done"
    /\ normRet = "books"
    /\ cleaned_books.t = "list"
    /\ Len(Candidates) >= 2
    /\ \A i \in DOMAIN Candidates : Untitled(Candidates[i])
    /\ \E i \in DOMAIN Candidates : HasKey(Candidates[i], S_title)
    /\ response.status = 200

\* C5: a request without a file field ends with 400 "No file uploaded", one
\* with an empty filename with 400 "No selected file"; in both no temporary
\* file is created and OCR, assistant and catalog are not called.
C5_UploadRejected ==
    (pc # "ReceiveUpload" /\ (~request.hasFile \/ request.filename = "")) =>
        /\ pc = "Done"
        /\ response = JsonError(400, Lit(IF ~request.hasFile THEN "No file uploaded"
                                         ELSE "No selected file"))
        /\ tempCreated = 0
        /\ ~tempExists
        /\ ocrCalls = 0
        /\ runCalls = 0
        /\ calls = <<>>

\* C5 witness: a request with a file field and an empty filename was answered.
C5_Witness ==
    /\ pc = "Done"
    /\ request.hasFile
    /\ request.filename = ""
    /\ response.status = 400

\* the least element of a non-empty set of positions
First(S) == CHOOSE i \in S : \A j \in S : i <= j

\* what C6 requires of the result (ret, val) for the listing msgs
Classified(msgs, ret, val) ==
    LET asst == {i \in DOMAIN msgs : msgs[i].role = "assistant"} IN
    IF asst = {} THEN ret = "AssistantResponseMissing"
    ELSE LET content == msgs[First(asst)].content
             texts == {i \in DOMAIN content : content[i].type = "text"}
         IN  IF texts = {} THEN ret \in ErrorRets \cup {"books"}
             ELSE LET part == content[First(texts)] IN
                  IF ~part.ok THEN ret = "InvalidJson"
                  ELSE IF ~HasKey(part.value, S_books) THEN ret = "InvalidSchema"
                  ELSE ret = "books" /\ val = FieldOf(part.value, S_books)

\* C6: the result of clean_text_with_openai is decided by the first
\* assistant message of the listing: AssistantResponseMissing when there is
\* none, InvalidJson when its text does not parse, InvalidSchema when the
\* parsed document has no books key, and otherwise the value of books; one
\* of these four results comes out for every listing.
C6_Classification ==
    [][pc = "Classify" => Classified(messages, normRet', cleaned_books')]_vars

\* C7: the temporary file exists before and throughout the OCR invocation,
\* and is gone once the Extract stage is left: before the assistant is called
\* and before any response is returned.
C7_TempFileScoped ==
    /\ ocrCalls > 0 => tempCreated = 1
    /\ pc \in {"Extract", "ExtractExit"} => tempExists
    /\ PastExtract => ~tempExists
    /\ runCalls > 0 => ~tempExists
    /\ response # NoResponse => ~tempExists

\* C7 witness: OCR returned no text and the request was answered inside the
\* with block.
C7_Witness ==
    /\ pc = "Done"
    /\ tempCreated = 1
    /\ ocrCalls = 1
    /\ ~ocrRaised
    /\ extracted_text = <<>>
    /\ response.status = 500

\* C8: the stages run in order and at most once: OCR once, the assistant run
\* once and only after Extract succeeded, the catalog once per candidate and
\* only after Normalize succeeded, and no external call after a stage failed.
C8_LinearFailFast ==
    /\ ocrCalls <= 1
    /\ runCalls <= 1
    /\ \A m, n \in DOMAIN calls : m < n => calls[m].idx < calls[n].idx
    /\ pc \in {"ReceiveUpload", "Extract"} => ocrCalls = 0
    /\ pc \in {"ReceiveUpload", "Extract", "ExtractExit", "Normalize"} => runCalls = 0
    /\ pc # "EnrichEach" /\ pc # "Done" => calls = <<>>
    /\ runCalls > 0 => ocrCalls = 1 /\ ~ocrRaised /\ extracted_text # <<>>
    /\ calls # <<>> => runCalls = 1 /\ normRet = "books"
    /\ normRet \in ErrorRets => calls = <<>>
    /\ \A n \in DOMAIN calls : EnricherFailed(calls[n].outcome) => n = Len(calls)

\* the books list a result of the Enricher holds
ReturnedBooks(g) == IF HasKey(g, S_books) THEN FieldOf(g, S_books) ELSE JList(<<>>)

\* C9: on a 200, books_info holds one record per candidate with a non-empty
\* title, in the Normalizer's order, each with that candidate's title and
\* author and with the books the Enricher returned for that title; and
\* extracted_text is the text of the Extract stage.
C9_RecordsPerTitledCandidate ==
    response.status = 200 =>
        /\ response.extracted_text = extracted_text
        /\ Len(response.books_info) = Cardinality(TitledIdx(Candidates))
        /\ Len(calls) = Cardinality(TitledIdx(Candidates))
        /\ \A n \in DOMAIN response.books_info :
            LET i == NthTitled(Candidates, n)
                rec == response.books_info[n]
            IN  /\ rec.extracted_title = FieldOf(Candidates[i], S_title)
                /\ rec.extracted_author =
                        IF HasKey(Candidates[i], S_author)
                        THEN FieldOf(Candidates[i], S_author) ELSE JStr(<<>>)
                /\ calls[n].idx = i
                /\ calls[n].title = rec.extracted_title
                /\ rec.hardcover_books = ReturnedBooks(calls[n].result)

\* C9 witness: a 200 with two records for three candidates, the middle one
\* without a title, the first record with a catalog match.
C9_Witness ==
    /\ response.status = 200
    /\ Len(Candidates) = 3
    /\ Untitled(Candidates[2])
    /\ Len(response.books_info) = 2
    /\ response.books_info[1].extracted_title # response.books_info[2].extracted_title
    /\ response.books_info[1].hardcover_books # JList(<<>>)
    /\ extracted_text = <<"D">>

\* process_image took the Normalizer's result for an error: the membership
\* test of line 196 could be evaluated and the loop was not entered
TakenForError == Supports(cleaned_books) /\ idx = 0

\* C10: process_image takes the Normalizer's result for a failure exactly
\* when clean_text_with_openai returned one of its three error results, and
\* an error result is never iterated.
C10_FailureIffErrorResult ==
    normRet \in ErrorRets \cup {"books"} =>
        /\ TakenForError <=> normRet \in ErrorRets
        /\ normRet \in ErrorRets => calls = <<>> /\ all_books_info = <<>>

====
